---- MODULE Spec2Model ----
(***************************************************************************)
(* Multi-scale Hessian eigenvalue enhancement (ITKBoneEnhancement).        *)
(*                                                                         *)
(* The image is a line of NumVoxels voxels (the slow-dimension splitter    *)
(* hands every work unit a contiguous run of voxels, scanned in raster     *)
(* order).  Eigenvalues are small integers.  Real numbers that are not     *)
(* integers (norms, parameters, measures) are fixed-point numbers with     *)
(* Unit steps per 1.0.  Sums accumulated in RealType keep a mantissa of    *)
(* MantissaBits bits and round to nearest, ties to even.                   *)
(***************************************************************************)
EXTENDS Integers, Sequences, FiniteSets, TLC

\* ------------------------------------------------------------------ bounds
NumVoxels == 3
MaxWorkUnits == 2
MaxScales == 2
MantissaBits == 3
MaxAbsPixel == 2
MaxSigmaSteps == 5
MaxStreamDivisions == 2

\* --------------------------------------------------------------- constants
Unit == 100
NonpositiveMin == -1000000000

Voxels == 1..NumVoxels
WorkUnits == 1..MaxWorkUnits
NoHolder == 0
NaN == 999999999
Infinity == 999999998

\* ----------------------------------------------------------------- helpers
Abs(x) == IF x < 0 THEN -x ELSE x

StdMax(a, b) == IF a < b THEN b ELSE a

RECURSIVE SqrtSearch(_, _, _)
SqrtSearch(x, lo, hi) ==
  IF lo >= hi THEN lo
  ELSE LET mid == (lo + hi + 1) \div 2
       IN IF mid * mid <= x THEN SqrtSearch(x, mid, hi)
                            ELSE SqrtSearch(x, lo, mid - 1)

\* sqrt of an integer x, as a fixed-point number
Sqrt(x) == SqrtSearch(x * Unit * Unit, 0, (x + 1) * Unit)

RECURSIVE Ulp(_)
Ulp(m) == IF m < 2 ^ MantissaBits THEN 1 ELSE 2 * Ulp(m \div 2)

\* the RealType nearest to the integer x (round to nearest, ties to even)
RoundReal(x) ==
  LET m == Abs(x)
      u == Ulp(m)
      q == m \div u
      r == m % u
      up == (2 * r > u) \/ (2 * r = u /\ q % 2 = 1)
      rq == IF up THEN q + 1 ELSE q
  IN IF x < 0 THEN -(rq * u) ELSE rq * u

RealAdd(a, b) == RoundReal(a + b)
RealSub(a, b) == RoundReal(a - b)

\* itk::CompensatedSummation<RealType>: operator= and operator+=
CompensatedAssign(x) == [sum |-> x, comp |-> 0]

CompensatedAdd(s, element) ==
  LET compensatedInput == RealSub(element, s.comp)
      tempSum == RealAdd(s.sum, compensatedInput)
  IN [sum |-> tempSum,
      comp |-> RealSub(RealSub(tempSum, s.sum), compensatedInput)]

\* ---------------------------------------------------------------- combiner
\* mutant: the absolute value of B is not taken
MaximumAbsoluteOfA(A, B) == IF Abs(A) > B THEN A ELSE B

\* Functor::MaximumAbsoluteValue::operator()
MaximumAbsoluteValue(A, B) == IF Abs(A) > Abs(B) THEN A ELSE B

\* mutant: the absolute value of B is not taken
MaximumAbsoluteOfAGE(A, B) == IF Abs(A) >= B THEN A ELSE B

\* the earlier revision of the functor
MaximumAbsoluteValueGE(A, B) == IF Abs(A) >= Abs(B) THEN A ELSE B

Sign(x) == IF x < 0 THEN -1 ELSE 1

\* product and quotient of fixed-point numbers
FixMul(a, b) == Sign(a) * Sign(b) * ((Abs(a) * Abs(b)) \div Unit)
FixDiv(a, b) == Sign(a) * Sign(b) * ((Abs(a) * Unit) \div Abs(b))

\* no Update of the estimator has completed before the current one
NotReported == << >>

\* no static sigma generator has been called
NoCall == [outcome |-> "none"]

\* -------------------------------------------------------------- input data
\* eigenvalue triples, ordered by magnitude (SymmetricEigenAnalysis,
\* OrderByMagnitude)
EigenSet == { <<0, 0, 0>>, <<0, 0, 1>>, <<0, 1, -1>>, <<1, -2, -5>> }

EigenImages == [Voxels -> EigenSet]

\* a mask is absent, or a mask image over its own region together with the
\* set of voxels whose physical point is inside the object; the region of a
\* mask need not lie within the volume (positions beyond NumVoxels)
NoMask == [present |-> FALSE, region |-> {}, inside |-> {}]
Masks ==
  { NoMask,
    [present |-> TRUE, region |-> Voxels, inside |-> {}],
    [present |-> TRUE, region |-> 2..(NumVoxels + 1), inside |-> {NumVoxels}],
    [present |-> TRUE, region |-> Voxels, inside |-> 1..(NumVoxels - 1)] }

\* ParallelizeImageRegion: consecutive runs of voxels, one per work unit
Splits ==
  { b \in [0..MaxWorkUnits -> 0..NumVoxels] :
      /\ b[0] = 0
      /\ b[MaxWorkUnits] = NumVoxels
      /\ \A w \in WorkUnits : b[w - 1] <= b[w] }

First(b, w) == b[w - 1] + 1
Last(b, w) == b[w]

UseImplementationParameters == "UseImplementationParameters"
UseJournalParameters == "UseJournalParameters"

VARIABLES
  stage,                    \* position of the pipeline
  filterKind,               \* "Descoteaux" or "Krcah" estimator and measure
  m_ParameterSet,           \* Krcah estimator: parameter set
  m_FrobeniusNormWeight,    \* Descoteaux estimator: weight
  m_Direction,              \* measure functor: -1 bright, +1 dark
  m_SigmaArray,             \* orchestrator: the schedule
  scaleLevel,               \* orchestrator: scales processed so far
  eigen,                    \* eigenvalue image of the current scale
  mask,                     \* estimator: optional mask
  maskingSpatialObject,     \* measure filter: optional mask
  split,                    \* regions of the work units of the running filter
  pc, pos,                  \* per work unit: position in the lambda
  local,                    \* per work unit: local accumulators
  tmp,                      \* per work unit: value read inside the lock
  m_Mutex,                  \* holder of the estimator's mutex
  m_MaxFrobeniusNorm,       \* Descoteaux estimator: shared maximum
  m_ThreadAccumulatedTrace, \* Krcah estimator: shared sum
  m_ThreadCount,            \* Krcah estimator: shared count
  parameters,               \* estimator: decorated parameter output
  estOutput,                \* estimator: image output
  functorParameters,        \* measure filter: parameters held by the functor
  response,                 \* measure filter: output image
  outputImage,              \* orchestrator: running output
  history,                  \* responses of the scales processed so far
  rounded,                  \* some addition of this estimation was inexact
  cmb,                      \* combiner applied to free-standing values
  sigmaCall,                \* a call of a static sigma generator
  reported,                 \* estimator: parameters read after the previous Update
  m_Updating,               \* streamed estimator: UpdateOutputData is running
  m_AbortGenerateData,      \* streamed estimator: abort flag
  m_CurrentSplit,           \* streamed estimator: stream piece being processed
  m_MaxFrobeniusNormArray,  \* streamed functor: one maximum per call number
  m_NumberOfStreamDivisions, \* streamed estimator: requested stream divisions
  m_NumberOfThreads,        \* streamed estimator: requested threads
  ninputs,                  \* streamed estimator: number of valid inputs
  outputRegion,             \* streamed estimator: requested region of the output
  upc,                      \* streamed estimator: position in UpdateOutputData
  frame,                    \* streamed estimator: locals of UpdateOutputData
  threadInfo,               \* streamed estimator: per thread id, the callback
  handed,                   \* regions handed to ThreadedGenerateData in this call
  scans                     \* per voxel, ProcessPixel calls in this call

vars ==
  <<stage, filterKind, m_ParameterSet, m_FrobeniusNormWeight, m_Direction,
    m_SigmaArray, scaleLevel, eigen, mask, maskingSpatialObject, split, pc,
    pos, local, tmp,
    m_Mutex, m_MaxFrobeniusNorm, m_ThreadAccumulatedTrace, m_ThreadCount,
    parameters, estOutput, functorParameters, response, outputImage,
    history, rounded, cmb, sigmaCall, reported,
    m_Updating, m_AbortGenerateData, m_CurrentSplit, m_MaxFrobeniusNormArray,
    m_NumberOfStreamDivisions, m_NumberOfThreads, ninputs, outputRegion, upc,
    frame, threadInfo, handed, scans>>

streamVars ==
  <<m_Updating, m_AbortGenerateData, m_CurrentSplit, m_MaxFrobeniusNormArray,
    m_NumberOfStreamDivisions, m_NumberOfThreads, ninputs, outputRegion, upc,
    frame, threadInfo, handed, scans>>

configVars == <<filterKind, m_ParameterSet, m_FrobeniusNormWeight,
                m_Direction, m_SigmaArray, mask, maskingSpatialObject,
                sigmaCall, reported, streamVars>>
orchVars == <<scaleLevel, outputImage, history>>
measureVars == <<functorParameters, response>>
sharedVars == <<m_MaxFrobeniusNorm, m_ThreadAccumulatedTrace, m_ThreadCount>>

\* mutant: every voxel within the region of the mask image counts as inside
IsInsideRegion(m, v) == v \in m.region

\* the spatial object is asked about the physical point of the voxel
IsInsideInObjectSpace(m, v) == v \in m.inside

\* mutant: the mask is not consulted
IncludedWithoutMask(v) == TRUE

\* (!maskPointer) || maskPointer->IsInsideInObjectSpace(point)
Included(v) == (~mask.present) \/ IsInsideInObjectSpace(mask, v)

\* an image buffer holds the pixels written so far
EmptyImage == <<>>

\* mutant: only the pixels of included voxels are written
SetPixelIfIncluded(img, v, x) ==
  IF Included(v)
    THEN [u \in (DOMAIN img) \cup {v} |-> IF u = v THEN x ELSE img[u]]
    ELSE img

\* outputIt.Set(...): the pixel of voxel v is written
SetPixel(img, v, x) == [u \in (DOMAIN img) \cup {v} |-> IF u = v THEN x ELSE img[u]]

\* ------------------------------------------------- Descoteaux estimator
Half == Unit \div 2

\* constructor: parameters 0.5, 0.5, 1
InitialParameters == <<Half, Half, Unit>>

\* DescoteauxEigenToMeasureParameterEstimationFilter::CalculateFrobeniusNorm
CalculateFrobeniusNorm(pixel) ==
  Sqrt(pixel[1] * pixel[1] + pixel[2] * pixel[2] + pixel[3] * pixel[3])

\* mutant: the shared maximum is overwritten by the local one
DescoteauxStoreOverwrite(shared, max) == max

\* the statement under the lock: m_MaxFrobeniusNorm = std::max(m_MaxFrobeniusNorm, max)
DescoteauxStore(shared, max) == StdMax(shared, max)

\* mutant: the lambda does not wait for the lock
LockIgnored == TRUE

\* std::lock_guard<std::mutex> mutexHolder(m_Mutex) can be taken
LockAvailable == m_Mutex = NoHolder

NewLocal == [max |-> NonpositiveMin, accum |-> 0, count |-> 0]

\* the filter starts its work units on the regions of one split
StartWorkUnits(b) ==
  /\ split' = b
  /\ pc' = [w \in WorkUnits |-> IF First(b, w) <= Last(b, w) THEN "scan" ELSE "done"]
  /\ pos' = [w \in WorkUnits |-> First(b, w)]
  /\ local' = [w \in WorkUnits |-> NewLocal]
  /\ tmp' = [w \in WorkUnits |-> 0]

AllDone == \A w \in WorkUnits : pc[w] = "done"

\* mutant: the lambda leaves the loop after its first pixel
AfterPixelLeaveLoop(w) == "lock"

\* after the last pixel the lambda goes on to the lock
AfterPixel(w) == IF pos[w] >= Last(split, w) THEN "lock" ELSE "scan"

\* mutant: the shared maximum of the previous run is kept
DescoteauxBeforeWithoutReset ==
  /\ stage = "estimate" /\ filterKind = "Descoteaux"
  /\ \E b \in Splits : StartWorkUnits(b)
  /\ estOutput' = EmptyImage
  /\ rounded' = FALSE
  /\ stage' = "estimating"
  /\ UNCHANGED <<configVars, orchVars, measureVars, eigen, m_Mutex,
                 m_MaxFrobeniusNorm, m_ThreadAccumulatedTrace, m_ThreadCount,
                 parameters, cmb>>

DescoteauxBeforeThreadedGenerateData ==
  /\ stage = "estimate" /\ filterKind = "Descoteaux"
  /\ m_MaxFrobeniusNorm' = NonpositiveMin
  /\ \E b \in Splits : StartWorkUnits(b)
  /\ estOutput' = EmptyImage
  /\ rounded' = FALSE
  /\ stage' = "estimating"
  /\ UNCHANGED <<configVars, orchVars, measureVars, eigen, m_Mutex,
                 m_ThreadAccumulatedTrace, m_ThreadCount, parameters, cmb>>

\* one turn of the while loop of the lambda
DescoteauxScan(w) ==
  /\ stage = "estimating" /\ filterKind = "Descoteaux"
  /\ pc[w] = "scan"
  /\ LET v == pos[w] IN
       /\ local' = [local EXCEPT ![w].max =
                      IF Included(v)
                        THEN StdMax(@, CalculateFrobeniusNorm(eigen[v]))
                        ELSE @]
       /\ estOutput' = SetPixel(estOutput, v, eigen[v])
  /\ pc' = [pc EXCEPT ![w] = AfterPixel(w)]
  /\ pos' = [pos EXCEPT ![w] = @ + 1]
  /\ UNCHANGED <<stage, configVars, orchVars, measureVars, sharedVars, eigen,
                 split, tmp, m_Mutex, parameters, rounded, cmb>>

\* the lock is taken and the shared maximum is read
DescoteauxLock(w) ==
  /\ stage = "estimating" /\ filterKind = "Descoteaux"
  /\ pc[w] = "lock"
  /\ LockAvailable
  /\ m_Mutex' = w
  /\ tmp' = [tmp EXCEPT ![w] = m_MaxFrobeniusNorm]
  /\ pc' = [pc EXCEPT ![w] = "store"]
  /\ UNCHANGED <<stage, configVars, orchVars, measureVars, sharedVars, eigen,
                 split, pos, local, parameters, estOutput, rounded, cmb>>

\* the shared maximum is written and the lock released
DescoteauxUnlock(w) ==
  /\ stage = "estimating" /\ filterKind = "Descoteaux"
  /\ pc[w] = "store"
  /\ m_MaxFrobeniusNorm' = DescoteauxStore(tmp[w], local[w].max)
  /\ m_Mutex' = IF m_Mutex = w THEN NoHolder ELSE m_Mutex
  /\ pc' = [pc EXCEPT ![w] = "done"]
  /\ UNCHANGED <<stage, configVars, orchVars, measureVars, eigen, split, pos,
                 local, tmp, m_ThreadAccumulatedTrace, m_ThreadCount,
                 parameters, estOutput, rounded, cmb>>

\* mutant: c starts as the weight and stays so when no norm is positive
DescoteauxParametersUnscaled(weight, maxNorm) ==
  <<Half, Half, IF maxNorm > 0 THEN FixMul(weight, maxNorm) ELSE weight>>

DescoteauxParameters(weight, maxNorm) ==
  <<Half, Half, IF maxNorm > 0 THEN FixMul(weight, maxNorm) ELSE 0>>

DescoteauxAfterThreadedGenerateData ==
  /\ stage = "estimating" /\ filterKind = "Descoteaux"
  /\ AllDone
  /\ parameters' = DescoteauxParameters(m_FrobeniusNormWeight, m_MaxFrobeniusNorm)
  /\ stage' = "estimated"
  /\ UNCHANGED <<configVars, orchVars, measureVars, sharedVars, eigen, split,
                 pc, pos, local, tmp, m_Mutex, estOutput, rounded, cmb>>

\* ------------------------------------------------------ Krcah estimator
Sqrt2 == Sqrt(2)

\* mutant: the absolute values are not taken
CalculateTraceSigned(pixel) ==
  RealAdd(RealAdd(RealAdd(0, pixel[1]), pixel[2]), pixel[3])

\* KrcahEigenToMeasureParameterEstimationFilter::CalculateTraceAccordingToImplementation
CalculateTraceAccordingToImplementation(pixel) ==
  RealAdd(RealAdd(RealAdd(0, Abs(pixel[1])), Abs(pixel[2])), Abs(pixel[3]))

\* KrcahEigenToMeasureParameterEstimationFilter::CalculateTraceAccordingToJournalArticle
CalculateTraceAccordingToJournalArticle(pixel) ==
  RealAdd(RealAdd(RealAdd(0, pixel[1]), pixel[2]), pixel[3])

\* the switch on m_ParameterSet that selects traceFunction
TraceFunction(set, pixel) ==
  IF set = UseImplementationParameters
    THEN CalculateTraceAccordingToImplementation(pixel)
    ELSE CalculateTraceAccordingToJournalArticle(pixel)

\* the statements under the lock: m_ThreadCount += count; m_ThreadAccumulatedTrace += accum
KrcahStore(shared, loc) ==
  [count |-> CompensatedAdd(shared.count, loc.count),
   accum |-> CompensatedAdd(shared.accum, loc.accum)]

\* an addition whose result RealType holds exactly
ExactAdd(a, b) == RoundReal(a + b) = a + b
ExactCompensatedAdd(s, element) == s.comp = 0 /\ ExactAdd(s.sum, element)

KrcahBeforeThreadedGenerateData ==
  /\ stage = "estimate" /\ filterKind = "Krcah"
  /\ m_ThreadAccumulatedTrace' = CompensatedAssign(0)
  /\ m_ThreadCount' = CompensatedAssign(0)
  /\ \E b \in Splits : StartWorkUnits(b)
  /\ estOutput' = EmptyImage
  /\ rounded' = FALSE
  /\ stage' = "estimating"
  /\ UNCHANGED <<configVars, orchVars, measureVars, eigen, m_Mutex,
                 m_MaxFrobeniusNorm, parameters, cmb>>

\* one turn of the while loop of the lambda
KrcahScan(w) ==
  /\ stage = "estimating" /\ filterKind = "Krcah"
  /\ pc[w] = "scan"
  /\ LET v == pos[w]
         trace == TraceFunction(m_ParameterSet, eigen[v])
     IN
       /\ local' = [local EXCEPT ![w] =
                      IF Included(v)
                        THEN [@ EXCEPT !.count = RealAdd(@, 1),
                                       !.accum = RealAdd(@, trace)]
                        ELSE @]
       /\ rounded' = (rounded \/ (Included(v) /\
                        ~(ExactAdd(local[w].count, 1) /\ ExactAdd(local[w].accum, trace))))
       /\ estOutput' = SetPixel(estOutput, v, eigen[v])
  /\ pc' = [pc EXCEPT ![w] = AfterPixel(w)]
  /\ pos' = [pos EXCEPT ![w] = @ + 1]
  /\ UNCHANGED <<stage, configVars, orchVars, measureVars, sharedVars, eigen,
                 split, tmp, m_Mutex, parameters, cmb>>

\* the lock is taken and the shared sums are read
KrcahLock(w) ==
  /\ stage = "estimating" /\ filterKind = "Krcah"
  /\ pc[w] = "lock"
  /\ LockAvailable
  /\ m_Mutex' = w
  /\ tmp' = [tmp EXCEPT ![w] = [count |-> m_ThreadCount, accum |-> m_ThreadAccumulatedTrace]]
  /\ pc' = [pc EXCEPT ![w] = "store"]
  /\ UNCHANGED <<stage, configVars, orchVars, measureVars, sharedVars, eigen,
                 split, pos, local, parameters, estOutput, rounded, cmb>>

\* the shared sums are written and the lock released
KrcahUnlock(w) ==
  /\ stage = "estimating" /\ filterKind = "Krcah"
  /\ pc[w] = "store"
  /\ LET new == KrcahStore(tmp[w], local[w]) IN
       /\ m_ThreadCount' = new.count
       /\ m_ThreadAccumulatedTrace' = new.accum
  /\ rounded' = (rounded \/ ~(ExactCompensatedAdd(tmp[w].count, local[w].count)
                              /\ ExactCompensatedAdd(tmp[w].accum, local[w].accum)))
  /\ m_Mutex' = IF m_Mutex = w THEN NoHolder ELSE m_Mutex
  /\ pc' = [pc EXCEPT ![w] = "done"]
  /\ UNCHANGED <<stage, configVars, orchVars, measureVars, eigen, split, pos,
                 local, tmp, m_MaxFrobeniusNorm, parameters, estOutput, cmb>>

\* mutant: gamma is left unscaled when nothing was counted
KrcahParametersUnscaled(set, accum, count) ==
  LET alpha == IF set = UseImplementationParameters THEN FixMul(Sqrt2, Half) ELSE Half
      gamma == IF set = UseImplementationParameters THEN FixMul(Sqrt2, Half) ELSE Half \div 2
  IN <<alpha, alpha,
       IF count > 0 THEN FixMul(gamma, FixDiv(accum * Unit, count * Unit)) ELSE gamma>>

KrcahParameters(set, accum, count) ==
  LET alpha == IF set = UseImplementationParameters THEN FixMul(Sqrt2, Half) ELSE Half
      gamma == IF set = UseImplementationParameters THEN FixMul(Sqrt2, Half) ELSE Half \div 2
  IN <<alpha, alpha,
       IF count > 0 THEN FixMul(gamma, FixDiv(accum * Unit, count * Unit)) ELSE 0>>

KrcahAfterThreadedGenerateData ==
  /\ stage = "estimating" /\ filterKind = "Krcah"
  /\ AllDone
  /\ parameters' = KrcahParameters(m_ParameterSet, m_ThreadAccumulatedTrace.sum,
                                   m_ThreadCount.sum)
  /\ stage' = "estimated"
  /\ UNCHANGED <<configVars, orchVars, measureVars, sharedVars, eigen, split,
                 pc, pos, local, tmp, m_Mutex, estOutput, rounded, cmb>>

\* ---------------------------------------------------- measure functors
\* exp(-1)
ExpMinusOne == 37

RECURSIVE ExpNegInt(_)
ExpNegInt(n) == IF n = 0 THEN Unit ELSE FixMul(ExpMinusOne, ExpNegInt(n - 1))

\* exp(-f) for 0 <= f < 1, by its series
ExpNegFrac(f) ==
  LET f2 == FixMul(f, f)
      f3 == FixMul(f2, f)
      f4 == FixMul(f3, f)
  IN Unit - f + f2 \div 2 - f3 \div 6 + f4 \div 24

\* vcl_exp(-x) for x >= 0, also for x infinite or not a number
ExpNeg(x) ==
  IF x = NaN THEN NaN
  ELSE IF x = Infinity \/ x \div Unit >= 7 THEN 0
  ELSE FixMul(ExpNegInt(x \div Unit), ExpNegFrac(x % Unit))

\* (r * r) / (k * p * p) in IEEE arithmetic, r >= 0 and k > 0
SquareRatio(r, k, p) ==
  IF p = 0 THEN (IF r = 0 THEN NaN ELSE Infinity)
  ELSE FixDiv(FixDiv(FixMul(r, r), p), p) \div k

\* product of factors, one of which may be not a number
Product3(a, b, c) ==
  IF a = NaN \/ b = NaN \/ c = NaN THEN NaN ELSE FixMul(FixMul(a, b), c)

OneMinus(x) == IF x = NaN THEN NaN ELSE Unit - x

\* Functor::DescoteauxEigenToMeasureFunctor::operator()
DescoteauxFunctor(A, p, direction) ==
  LET l1 == Abs(A[1])
      l2 == Abs(A[2])
      l3 == Abs(A[3])
  IN IF direction * A[3] < 0 THEN 0
     ELSE IF l3 = 0 THEN 0
     ELSE LET Rsheet == FixDiv(l2 * Unit, l3 * Unit)
              Rblob == FixDiv(Abs(2 * l3 - l2 - l1) * Unit, l3 * Unit)
              Rnoise == Sqrt(l1 * l1 + l2 * l2 + l3 * l3)
          IN Product3(ExpNeg(SquareRatio(Rsheet, 2, p[1])),
                      OneMinus(ExpNeg(SquareRatio(Rblob, 2, p[2]))),
                      OneMinus(ExpNeg(SquareRatio(Rnoise, 2, p[3]))))

\* KrcahEigenToMeasureImageFilter::ProcessPixel
KrcahFunctor(A, p, direction) ==
  LET l1 == Abs(A[1])
      l2 == Abs(A[2])
      l3 == Abs(A[3])
  IN IF l3 = 0 \/ l2 = 0 THEN 0
     ELSE LET Rsheet == FixDiv(l2 * Unit, l3 * Unit)
              Rnoise == (l1 + l2 + l3) * Unit
              Rtube == FixDiv(l1 * Unit, l2 * l3 * Unit)
              s == Product3(ExpNeg(SquareRatio(Rsheet, 1, p[1])),
                            ExpNeg(SquareRatio(Rtube, 1, p[2])),
                            OneMinus(ExpNeg(SquareRatio(Rnoise, 1, p[3]))))
          IN IF s = NaN THEN NaN ELSE direction * Sign(A[3]) * s

Functor(A, p, direction) ==
  IF filterKind = "Descoteaux" THEN DescoteauxFunctor(A, p, direction)
                               ELSE KrcahFunctor(A, p, direction)

\* ---------------------------------------------- the estimator on its own
\* thread ids of the MultiThreader
ThreadIds == 0..(MaxWorkUnits - 1)

\* a thread id whose callback has not been called
NoThread == [pc |-> "idle", splitRegion |-> {}, callNumber |-> 0]

\* UpdateOutputData has not been entered
NoFrame == [numDivisions |-> 0, piece |-> 0, streamRegion |-> {}, validThreads |-> 0]

\* a streamed estimator that is not used
IdleStream ==
  /\ m_Updating = FALSE
  /\ m_AbortGenerateData = FALSE
  /\ m_CurrentSplit = 0
  /\ m_MaxFrobeniusNormArray = << >>
  /\ m_NumberOfStreamDivisions = 1
  /\ m_NumberOfThreads = 1
  /\ ninputs = 1
  /\ outputRegion = Voxels
  /\ upc = "none"
  /\ frame = NoFrame
  /\ threadInfo = [t \in ThreadIds |-> NoThread]
  /\ handed = {}
  /\ scans = [v \in Voxels |-> 0]

IdleOrchestrator ==
  /\ scaleLevel = 0
  /\ outputImage = EmptyImage
  /\ history = <<>>
  /\ functorParameters = <<0, 0, 0>>
  /\ response = EmptyImage
  /\ cmb = <<>>

IdleWorkUnits ==
  /\ split = [i \in 0..MaxWorkUnits |-> 0]
  /\ pc = [w \in WorkUnits |-> "done"]
  /\ pos = [w \in WorkUnits |-> 1]
  /\ local = [w \in WorkUnits |-> NewLocal]
  /\ tmp = [w \in WorkUnits |-> 0]
  /\ m_Mutex = NoHolder
  /\ m_MaxFrobeniusNorm = NonpositiveMin
  /\ m_ThreadAccumulatedTrace = CompensatedAssign(0)
  /\ m_ThreadCount = CompensatedAssign(0)
  /\ estOutput = EmptyImage
  /\ rounded = FALSE

\* a freshly constructed estimator with its inputs set, about to Update()
InitEst ==
  /\ reported = NotReported
  /\ IdleStream
  /\ sigmaCall = NoCall
  /\ stage = "estimate"
  /\ \/ filterKind = "Descoteaux" /\ m_ParameterSet = UseImplementationParameters
        /\ m_FrobeniusNormWeight \in ({Half, Unit \div 10})
     \/ filterKind = "Krcah"
        /\ m_ParameterSet \in {UseImplementationParameters, UseJournalParameters}
        /\ m_FrobeniusNormWeight = Half
  /\ m_Direction = -1
  /\ m_SigmaArray = <<>>
  /\ eigen \in EigenImages
  /\ mask \in Masks
  /\ maskingSpatialObject = NoMask
  /\ parameters = InitialParameters
  /\ IdleWorkUnits
  /\ IdleOrchestrator

EstimatorStep ==
  \/ DescoteauxBeforeThreadedGenerateData
  \/ \E w \in WorkUnits : DescoteauxScan(w)
  \/ \E w \in WorkUnits : DescoteauxLock(w)
  \/ \E w \in WorkUnits : DescoteauxUnlock(w)
  \/ DescoteauxAfterThreadedGenerateData
  \/ KrcahBeforeThreadedGenerateData
  \/ \E w \in WorkUnits : KrcahScan(w)
  \/ \E w \in WorkUnits : KrcahLock(w)
  \/ \E w \in WorkUnits : KrcahUnlock(w)
  \/ KrcahAfterThreadedGenerateData

SpecEst == InitEst /\ [][EstimatorStep]_vars

\* ------------------------------------------------------ estimator claims
InMask == IF mask.present THEN mask.inside ELSE Voxels

SetMax(S) == CHOOSE x \in S : \A y \in S : y <= x

RECURSIVE SetSum(_, _)
SetSum(S, f) ==
  IF S = {} THEN 0
  ELSE LET v == CHOOSE u \in S : TRUE IN f[v] + SetSum(S \ {v}, f)

Ran(w) == First(split, w) <= Last(split, w)
BothRan == \A w \in WorkUnits : Ran(w)

\* what one work unit covering the whole image accumulates, voxel 1 first
RECURSIVE SingleUnitMax(_)
SingleUnitMax(n) ==
  IF n = 0 THEN NonpositiveMin
  ELSE IF n \in InMask
         THEN StdMax(SingleUnitMax(n - 1), CalculateFrobeniusNorm(eigen[n]))
         ELSE SingleUnitMax(n - 1)

RECURSIVE SingleUnitSums(_)
SingleUnitSums(n) ==
  IF n = 0 THEN [count |-> 0, accum |-> 0]
  ELSE LET before == SingleUnitSums(n - 1) IN
       IF n \in InMask
         THEN [count |-> RealAdd(before.count, 1),
               accum |-> RealAdd(before.accum, TraceFunction(m_ParameterSet, eigen[n]))]
         ELSE before

SingleUnitParameters ==
  IF filterKind = "Descoteaux"
    THEN DescoteauxParameters(m_FrobeniusNormWeight,
                              StdMax(NonpositiveMin, SingleUnitMax(NumVoxels)))
    ELSE LET s == SingleUnitSums(NumVoxels) IN
         KrcahParameters(m_ParameterSet,
                         CompensatedAdd(CompensatedAssign(0), s.accum).sum,
                         CompensatedAdd(CompensatedAssign(0), s.count).sum)

\* the trace-based parameters in exact arithmetic
ExactTrace(pixel) ==
  IF m_ParameterSet = UseImplementationParameters
    THEN Abs(pixel[1]) + Abs(pixel[2]) + Abs(pixel[3])
    ELSE pixel[1] + pixel[2] + pixel[3]

ExactKrcahParameters ==
  KrcahParameters(m_ParameterSet,
                  SetSum(InMask, [v \in Voxels |-> ExactTrace(eigen[v])]),
                  Cardinality(InMask))

\* C2 (as stated): the parameter vector is the same for every assignment of
\* voxels to work units and every order of merging -- it equals the vector
\* that a single work unit scanning the whole image produces.
C2_SameForEverySchedule ==
  stage = "estimated" => parameters = SingleUnitParameters

\* C2 (amended): the Frobenius vector is the same for every schedule; the
\* trace-based alpha and beta are the same for every schedule, and gamma is
\* the exact-arithmetic value whenever no addition of the run was rounded.
C2_ScheduleIndependent ==
  stage = "estimated" =>
    /\ filterKind = "Descoteaux" => parameters = SingleUnitParameters
    /\ filterKind = "Krcah" =>
         /\ parameters[1] = SingleUnitParameters[1]
         /\ parameters[2] = SingleUnitParameters[2]
         /\ ~rounded => parameters = ExactKrcahParameters

C2_Witness ==
  /\ stage = "estimated" /\ BothRan
  /\ filterKind = "Krcah" /\ ~rounded /\ parameters[3] > 0
  /\ local[1].accum > 0 /\ local[2].accum > 0

\* the merged value that contains the contribution of every work unit of
\* the set S, merged in some order
RECURSIVE MergedValues(_)
MergedValues(S) ==
  IF S = {}
    THEN { [max |-> NonpositiveMin,
            sums |-> [count |-> CompensatedAssign(0), accum |-> CompensatedAssign(0)]] }
    ELSE UNION { { [max |-> StdMax(m.max, local[w].max),
                    sums |-> [count |-> CompensatedAdd(m.sums.count, local[w].count),
                              accum |-> CompensatedAdd(m.sums.accum, local[w].accum)]]
                   : m \in MergedValues(S \ {w}) } : w \in S }

Merged == { w \in WorkUnits : Ran(w) /\ pc[w] = "done" }

SharedValue ==
  [max |-> m_MaxFrobeniusNorm,
   sums |-> [count |-> m_ThreadCount, accum |-> m_ThreadAccumulatedTrace]]

\* C4: at most one work unit is inside the merge at any time, and the shared
\* accumulator holds the contribution of every work unit that has merged.
C4_MergeSerialized ==
  stage \in {"estimating", "estimated"} =>
    /\ Cardinality({ w \in WorkUnits : pc[w] = "store" }) <= 1
    /\ \E m \in MergedValues(Merged) :
         IF filterKind = "Descoteaux" THEN m.max = SharedValue.max
                                      ELSE m.sums = SharedValue.sums

C4_Witness ==
  /\ stage = "estimated" /\ BothRan
  /\ \/ filterKind = "Descoteaux" /\ local[1].max > local[2].max /\ local[2].max > 0
     \/ filterKind = "Krcah" /\ local[1].count > 0 /\ local[2].count > 0

C10_FrobeniusParameters ==
  (stage = "estimated" /\ filterKind = "Descoteaux" /\ InMask # {}) =>
    parameters =
      <<Half, Half,
        FixMul(m_FrobeniusNormWeight,
               SetMax({ CalculateFrobeniusNorm(eigen[v]) : v \in InMask }))>>

C10_Witness ==
  /\ stage = "estimated" /\ filterKind = "Descoteaux"
  /\ mask.present /\ InMask # {} /\ parameters[3] > 0
  /\ \E v \in Voxels \ InMask : \A u \in InMask :
       CalculateFrobeniusNorm(eigen[v]) > CalculateFrobeniusNorm(eigen[u])

MaskOutsideVolume == mask.present /\ ~(mask.region \subseteq Voxels)

Read(img, v) == IF v \in DOMAIN img THEN {img[v]} ELSE EigenSet

\* mutant: the measure filter does not wait for the estimator
EstimationStarted == stage \in {"estimating", "estimated"}

\* m_UnaryFunctorFilter->Update() has brought its input, the estimator, up to date
EstimationFinished == stage = "estimated"

\* mutant: the mask is not consulted
InsideIgnored(v) == TRUE

\* (!maskPointer) || (maskPointer->IsInside(point))
Inside(v) ==
  (~maskingSpatialObject.present) \/ IsInsideInObjectSpace(maskingSpatialObject, v)

\* mutant: only an array that is too short is rejected
ParametersNotTooShort == Len(parameters) >= 3

\* parameters.GetSize() != 3 does not hold
ParametersAccepted == Len(parameters) = 3

\* EigenToMeasureImageFilter::BeforeThreadedGenerateData; an array of another
\* size makes it throw before any thread is started
MeasureBeforeThreadedGenerateData ==
  /\ EstimationFinished
  /\ IF ParametersAccepted
       THEN /\ functorParameters' = parameters
            /\ response' = EmptyImage
            /\ \E b \in Splits : StartWorkUnits(b)
            /\ stage' = "measuring"
       ELSE /\ stage' = "exception"
            /\ UNCHANGED <<measureVars, split, pc, pos, local, tmp>>
  /\ UNCHANGED <<configVars, orchVars, sharedVars, eigen, m_Mutex, parameters,
                 estOutput, rounded, cmb>>

\* one turn of the while loop of EigenToMeasureImageFilter::ThreadedGenerateData
MeasureThreadedGenerateData(w) ==
  /\ stage = "measuring"
  /\ pc[w] = "scan"
  /\ LET v == pos[w] IN
       \E pixel \in Read(estOutput, v) :
         response' = SetPixel(response, v,
                              IF Inside(v)
                                THEN Functor(pixel, functorParameters, m_Direction)
                                ELSE 0)
  /\ pc' = [pc EXCEPT ![w] = IF pos[w] >= Last(split, w) THEN "done" ELSE "scan"]
  /\ pos' = [pos EXCEPT ![w] = @ + 1]
  /\ UNCHANGED <<stage, configVars, orchVars, sharedVars, eigen, split, local,
                 tmp, m_Mutex, parameters, estOutput, functorParameters,
                 rounded, cmb>>

\* the threads of the measure filter are joined
MeasureAfterThreadedGenerateData ==
  /\ stage = "measuring"
  /\ AllDone
  /\ stage' = "measured"
  /\ UNCHANGED <<configVars, orchVars, measureVars, sharedVars, eigen, split,
                 pc, pos, local, tmp, m_Mutex, parameters, estOutput, rounded,
                 cmb>>

MeasureStep ==
  \/ MeasureBeforeThreadedGenerateData
  \/ \E w \in WorkUnits : MeasureThreadedGenerateData(w)
  \/ MeasureAfterThreadedGenerateData

\* ----------------------------------- estimator and measure filter connected
\* the masks given to the estimator and to the measure filter
PipelineMasks ==
  { <<NoMask, NoMask>>,
    <<[present |-> TRUE, region |-> Voxels, inside |-> {}], NoMask>>,
    <<[present |-> TRUE, region |-> Voxels, inside |-> 1..(NumVoxels - 1)],
      [present |-> TRUE, region |-> Voxels, inside |-> 1..(NumVoxels - 1)]>> }

Directions == {-1, 1}

\* the filters constructed and connected, about to Update()
InitPipeline ==
  /\ reported = NotReported
  /\ IdleStream
  /\ sigmaCall = NoCall
  /\ stage = "estimate"
  /\ filterKind \in {"Descoteaux", "Krcah"}
  /\ m_ParameterSet = UseImplementationParameters
  /\ m_FrobeniusNormWeight = Half
  /\ m_Direction \in Directions
  /\ m_SigmaArray = <<>>
  /\ eigen \in EigenImages
  /\ \E pair \in PipelineMasks :
       mask = pair[1] /\ maskingSpatialObject = pair[2]
  /\ parameters = InitialParameters
  /\ IdleWorkUnits
  /\ IdleOrchestrator

PipelineStep == EstimatorStep \/ MeasureStep

SpecPipeline == InitPipeline /\ [][PipelineStep]_vars

\* ------------------------------------------------------- pipeline claims
\* the shared accumulator holds the contribution of every included voxel
AllMerged ==
  IF filterKind = "Descoteaux"
    THEN m_MaxFrobeniusNorm =
           SetMax({NonpositiveMin} \cup { CalculateFrobeniusNorm(eigen[v]) : v \in InMask })
    ELSE m_ThreadCount.sum = Cardinality(InMask)

\* the parameter output is the vector derived from the shared accumulator
ParametersDerived ==
  parameters =
    IF filterKind = "Descoteaux"
      THEN DescoteauxParameters(m_FrobeniusNormWeight, m_MaxFrobeniusNorm)
      ELSE KrcahParameters(m_ParameterSet, m_ThreadAccumulatedTrace.sum,
                           m_ThreadCount.sum)

\* C3: within one scale no voxel's measure is computed before every
\* estimation work unit has scanned its region and merged its local
\* accumulator and the parameter vector has been derived from the merged
\* value; the functor applies exactly that vector.
C3_MeasureAfterEstimation ==
  [][ response' # response =>
        /\ stage = "measuring"
        /\ DOMAIN estOutput = Voxels
        /\ m_Mutex = NoHolder
        /\ AllMerged
        /\ ParametersDerived
        /\ functorParameters = parameters ]_vars

C3_Witness ==
  /\ stage = "measuring"
  /\ parameters # InitialParameters
  /\ \E v \in DOMAIN response : response[v] # 0
  /\ \E w \in WorkUnits : pc[w] = "scan"

\* C9: when a mask is present every voxel outside it receives 0 in the
\* measure response, whatever its eigenvalues and the parameter vector; only
\* voxels inside the mask can receive a non-zero value.
C9_OutsideMaskZero ==
  maskingSpatialObject.present =>
    \A v \in DOMAIN response :
      v \notin maskingSpatialObject.inside => response[v] = 0

C9_Witness ==
  /\ stage = "measured" /\ maskingSpatialObject.present
  /\ \E v \in Voxels \ maskingSpatialObject.inside :
       /\ Functor(eigen[v], functorParameters, m_Direction) # 0
       /\ response[v] = 0
  /\ \E u \in maskingSpatialObject.inside : response[u] # 0

\* C12: whenever the Frobenius estimator yields c = 0, the sheet-blob-noise
\* measure computed with that parameter vector is 0 at every voxel.
C12_ZeroCGivesZeroMeasure ==
  (filterKind = "Descoteaux" /\ stage \in {"measuring", "measured"}
     /\ parameters[3] = 0 /\ functorParameters = parameters) =>
    \A v \in DOMAIN response : response[v] = 0

\* ------------------------------------------- the measure filter on its own
\* parameter arrays a caller can set on the parameters input
ParameterArrays ==
  { <<Half, Half, Half \div 2>>, <<Half, Half, 0>>, <<0, Half, Half \div 2>>,
    <<Half, 0, Half \div 2>>, <<0, 0, 0>>,
    <<Half, Half>>, <<Half, Half, Half \div 2, Half \div 2>> }

\* the measure filter with its image, parameters and mask inputs set and up
\* to date, about to Update()
InitMeasure ==
  /\ reported = NotReported
  /\ IdleStream
  /\ sigmaCall = NoCall
  /\ stage = "estimated"
  /\ filterKind \in {"Descoteaux", "Krcah"}
  /\ m_ParameterSet = UseImplementationParameters
  /\ m_FrobeniusNormWeight = Half
  /\ m_Direction \in Directions
  /\ m_SigmaArray = <<>>
  /\ eigen \in EigenImages
  /\ mask = NoMask
  /\ maskingSpatialObject = NoMask
  /\ parameters \in ParameterArrays
  /\ split = [i \in 0..MaxWorkUnits |-> 0]
  /\ pc = [w \in WorkUnits |-> "done"]
  /\ pos = [w \in WorkUnits |-> 1]
  /\ local = [w \in WorkUnits |-> NewLocal]
  /\ tmp = [w \in WorkUnits |-> 0]
  /\ m_Mutex = NoHolder
  /\ m_MaxFrobeniusNorm = NonpositiveMin
  /\ m_ThreadAccumulatedTrace = CompensatedAssign(0)
  /\ m_ThreadCount = CompensatedAssign(0)
  /\ estOutput = eigen
  /\ rounded = FALSE
  /\ IdleOrchestrator

SpecMeasure == InitMeasure /\ [][MeasureStep]_vars

\* C15: a voxel where a denominator of a measure formula would be near zero
\* gets a defined 0 response, never NaN or Inf: for every eigenvalue triple
\* and every 3-element parameter vector both functors return a finite value.
C15_FiniteResponse ==
  \A v \in DOMAIN response : (response[v] # NaN /\ response[v] # Infinity)

\* C16: a parameter array whose size is not 3 is rejected before any
\* per-voxel work begins: the filter throws, no work unit is started and no
\* voxel of the response is written.
C16_WrongSizeRejected ==
  /\ Len(parameters) # 3 =>
       /\ stage \in {"estimated", "exception"}
       /\ response = EmptyImage
       /\ \A w \in WorkUnits : pc[w] = "done" /\ pos[w] = 1
  /\ stage = "exception" => Len(parameters) # 3

C16_Witness ==
  /\ stage = "exception"
  /\ Len(parameters) = 4
  /\ \E v \in Voxels : KrcahFunctor(eigen[v], parameters, m_Direction) # 0

\* the estimation of the scale is over
AfterEstimation == stage \in {"estimated", "measuring", "measured"}

\* C25: the estimator only reads the eigenvalue field: after estimation its
\* image output equals its input voxel for voxel, voxels outside the mask
\* included, and neither the eigenvalue field, nor the passed-through image,
\* nor the parameter vector changes for the rest of the scale.
C25_EigenvaluesReadOnly ==
  /\ [](AfterEstimation => estOutput = eigen)
  /\ [][ eigen' = eigen ]_vars
  /\ [][ AfterEstimation =>
           (parameters' = parameters /\ estOutput' = estOutput) ]_vars

C25_Witness ==
  /\ stage = "measured"
  /\ mask.present /\ InMask # Voxels
  /\ \E v \in Voxels \ InMask : eigen[v] # <<0, 0, 0>> /\ estOutput[v] = eigen[v]
  /\ parameters # InitialParameters
  /\ \E v \in Voxels : response[v] # 0

\* ---------------------------------------- one estimator updated repeatedly
\* inputs the caller switches between: a field of zeros, one large triple at
\* the first voxel, ones everywhere, one triple at the last voxel
RerunImages ==
  { [v \in Voxels |-> <<0, 0, 0>>],
    [v \in Voxels |-> IF v = 1 THEN <<1, -2, -5>> ELSE <<0, 0, 0>>],
    [v \in Voxels |-> <<0, 0, 1>>],
    [v \in Voxels |-> IF v = NumVoxels THEN <<0, 1, -1>> ELSE <<0, 0, 0>>] }

RerunMasks ==
  { NoMask,
    [present |-> TRUE, region |-> Voxels, inside |-> {}],
    [present |-> TRUE, region |-> Voxels, inside |-> 1..(NumVoxels - 1)] }

ParameterSets(kind) ==
  IF kind = "Krcah" THEN {UseImplementationParameters, UseJournalParameters}
                    ELSE {UseImplementationParameters}

InitRerun ==
  /\ reported = NotReported
  /\ IdleStream
  /\ sigmaCall = NoCall
  /\ stage = "estimate"
  /\ filterKind \in {"Descoteaux", "Krcah"}
  /\ m_ParameterSet \in ParameterSets(filterKind)
  /\ m_FrobeniusNormWeight = Half
  /\ m_Direction = -1
  /\ m_SigmaArray = << >>
  /\ eigen \in RerunImages
  /\ mask \in RerunMasks
  /\ maskingSpatialObject = NoMask
  /\ parameters = InitialParameters
  /\ IdleWorkUnits
  /\ IdleOrchestrator

\* the caller reads the parameters, sets another input, mask or parameter
\* set and calls Update again; the members of the filter keep their values,
\* the locals of the finished work units are gone
UpdateAgain ==
  /\ stage = "estimated"
  /\ reported' = parameters
  /\ \E image \in RerunImages, m \in RerunMasks, set \in ParameterSets(filterKind) :
       /\ <<image, m, set>> # <<eigen, mask, m_ParameterSet>>
       /\ eigen' = image /\ mask' = m /\ m_ParameterSet' = set
  /\ split' = [i \in 0..MaxWorkUnits |-> 0]
  /\ pc' = [w \in WorkUnits |-> "done"]
  /\ pos' = [w \in WorkUnits |-> 1]
  /\ local' = [w \in WorkUnits |-> NewLocal]
  /\ tmp' = [w \in WorkUnits |-> 0]
  /\ stage' = "estimate"
  /\ UNCHANGED <<filterKind, m_FrobeniusNormWeight, m_Direction, m_SigmaArray,
                 maskingSpatialObject, sigmaCall, orchVars, measureVars,
                 sharedVars, m_Mutex, parameters, estOutput, rounded, cmb,
                 streamVars>>

RerunStep == EstimatorStep \/ UpdateAgain

SpecRerun == InitRerun /\ [][RerunStep]_vars

\* what a freshly constructed estimator computes for the configuration
FreshParameters ==
  IF filterKind = "Descoteaux"
    THEN <<Half, Half,
           FixMul(m_FrobeniusNormWeight,
                  SetMax({0} \cup { CalculateFrobeniusNorm(eigen[v]) : v \in InMask }))>>
    ELSE ExactKrcahParameters

\* C26: after any sequence of Update calls with changing inputs, masks and
\* parameter sets the reported parameters are those a freshly constructed
\* estimator computes for the last configuration; the shared accumulator
\* holds contributions of the work units of the current run only.
C26_NoCarryOver ==
  /\ (stage = "estimated" /\ ~rounded) => parameters = FreshParameters
  /\ stage \in {"estimating", "estimated"} =>
       \E m \in MergedValues(Merged) :
         IF filterKind = "Descoteaux" THEN m.max = SharedValue.max
                                      ELSE m.sums = SharedValue.sums

C26_Witness ==
  /\ stage = "estimated" /\ reported # NotReported
  /\ reported[3] > parameters[3]
  /\ parameters[3] > 0
  /\ mask.present

\* --------------------------------------------------- the streamed estimator
\* EigenToMeasureParameterEstimationFilter<TInputImage, TInputSpatialObject,
\* TFunction> with the functor DescoteauxEigenParameterFunctor.  A region is
\* the set of its voxels.
Ceil(a, b) == (a + b - 1) \div b

\* the index of a region: its first voxel
RegionIndex(region) == CHOOSE x \in region : \A y \in region : x <= y

\* ImageRegionSplitterSlowDimension::GetNumberOfSplits
GetNumberOfSplits(region, requestedNumber) ==
  LET range == Cardinality(region)
      valuesPerPiece == Ceil(range, requestedNumber)
  IN Ceil(range, valuesPerPiece)

\* ImageRegionSplitterSlowDimension::GetSplit
GetSplit(i, numberOfPieces, region) ==
  LET range == Cardinality(region)
      index == RegionIndex(region)
      valuesPerPiece == Ceil(range, numberOfPieces)
      maxPieceUsed == Ceil(range, valuesPerPiece) - 1
  IN IF i < maxPieceUsed
       THEN (index + i * valuesPerPiece)..(index + (i + 1) * valuesPerPiece - 1)
     ELSE IF i = maxPieceUsed
       THEN (index + i * valuesPerPiece)..(index + range - 1)
     ELSE region

\* SplitRequestedRegion, inherited from ImageSource: the piece of the
\* requested region of the output
SplitRequestedRegion(i, pieces) == GetSplit(i, pieces, outputRegion)

\* DescoteauxEigenParameterFunctor::Initialize
Initialize(numberOfCalls) == [i \in 0..(numberOfCalls - 1) |-> 0]

\* DescoteauxEigenParameterFunctor::ProcessPixel; a call number beyond the
\* array does not touch an element of the array
ProcessPixel(array, inputPixel, callNumber) ==
  LET norm == CalculateFrobeniusNorm(inputPixel)
  IN IF callNumber \in DOMAIN array /\ norm > array[callNumber]
       THEN [array EXCEPT ![callNumber] = norm]
       ELSE array

\* DescoteauxEigenParameterFunctor::GetComputedParameters
GetComputedParameters(array) ==
  <<Half, Half,
    FixMul(m_FrobeniusNormWeight,
           SetMax({0} \cup { array[i] : i \in DOMAIN array }))>>

\* mutant: the stride is applied to the stream piece
CallNumberStrideOnPiece(threadId, streamNumber) ==
  m_NumberOfStreamDivisions * streamNumber + threadId

\* the call number ThreaderCallback passes to ThreadedGenerateData
CallNumber(threadId, streamNumber) ==
  m_NumberOfStreamDivisions * threadId + streamNumber

\* the loop of ThreadedGenerateData over a region
RECURSIVE ScanRegion(_, _, _)
ScanRegion(array, region, callNumber) ==
  IF region = {} THEN array
  ELSE LET v == RegionIndex(region)
       IN ScanRegion(IF Inside(v) THEN ProcessPixel(array, eigen[v], callNumber)
                                  ELSE array,
                     region \ {v}, callNumber)

\* what the streamed estimator never writes
streamFixed ==
  <<stage, filterKind, m_ParameterSet, m_FrobeniusNormWeight, m_Direction,
    m_SigmaArray, mask, maskingSpatialObject, sigmaCall, reported, orchVars,
    measureVars, sharedVars, eigen, split, pc, pos, local, tmp, m_Mutex,
    rounded, cmb, m_NumberOfStreamDivisions, m_NumberOfThreads, ninputs,
    outputRegion>>

\* a freshly constructed streamed estimator with its stream divisions,
\* threads, mask and (unless forgotten) input set
InitStream ==
  /\ reported = NotReported
  /\ sigmaCall = NoCall
  /\ stage = "stream"
  /\ filterKind = "Descoteaux"
  /\ m_ParameterSet = UseImplementationParameters
  /\ m_FrobeniusNormWeight = Half
  /\ m_Direction = -1
  /\ m_SigmaArray = << >>
  /\ eigen \in RerunImages
  /\ mask = NoMask
  /\ maskingSpatialObject \in RerunMasks
  /\ parameters = <<0, 0, 0>>
  /\ IdleWorkUnits
  /\ IdleOrchestrator
  /\ m_Updating = FALSE
  /\ m_AbortGenerateData = FALSE
  /\ m_CurrentSplit = 0
  /\ m_MaxFrobeniusNormArray = << >>
  /\ m_NumberOfStreamDivisions \in 1..MaxStreamDivisions
  /\ m_NumberOfThreads \in 1..MaxWorkUnits
  /\ ninputs \in {0, 1}
  /\ outputRegion \in ({ Voxels, 2..NumVoxels })
  /\ upc = "none"
  /\ frame = NoFrame
  /\ threadInfo = [t \in ThreadIds |-> NoThread]
  /\ handed = {}
  /\ scans = [v \in Voxels |-> 0]

\* UpdateOutputData up to the head of the loop over the pieces
UpdateOutputData ==
  /\ stage = "stream"
  /\ upc \in {"none", "returned", "exception", "skipped"}
  /\ IF m_Updating
       THEN /\ upc' = "skipped"
            /\ UNCHANGED <<m_Updating, m_AbortGenerateData, frame,
                           m_MaxFrobeniusNormArray, threadInfo, handed, scans>>
     ELSE IF ninputs < 1
       THEN /\ upc' = "exception"
            /\ UNCHANGED <<m_Updating, m_AbortGenerateData, frame,
                           m_MaxFrobeniusNormArray, threadInfo, handed, scans>>
     ELSE /\ m_AbortGenerateData' = FALSE
          /\ m_Updating' = TRUE
          /\ LET numDivisions == m_NumberOfStreamDivisions
                 numDivisionsFromSplitter ==
                   GetNumberOfSplits(outputRegion, m_NumberOfStreamDivisions)
             IN frame' = [NoFrame EXCEPT !.numDivisions =
                            IF numDivisionsFromSplitter < numDivisions
                              THEN numDivisionsFromSplitter ELSE numDivisions]
          /\ m_MaxFrobeniusNormArray' =
               Initialize(m_NumberOfStreamDivisions * m_NumberOfThreads)
          /\ threadInfo' = [t \in ThreadIds |-> NoThread]
          /\ handed' = {}
          /\ scans' = [v \in Voxels |-> 0]
          /\ upc' = "loop"
  /\ UNCHANGED <<streamFixed, m_CurrentSplit, parameters, estOutput>>

\* SetAbortGenerateData(true) by an observer or by another thread of the
\* application while the filter is updating
SetAbortGenerateData ==
  /\ stage = "stream"
  /\ upc \in {"loop", "threads"}
  /\ ~m_AbortGenerateData
  /\ m_AbortGenerateData' = TRUE
  /\ UNCHANGED <<streamFixed, m_Updating, m_CurrentSplit,
                 m_MaxFrobeniusNormArray, upc, frame, threadInfo, handed,
                 scans, parameters, estOutput>>

\* one turn of the loop up to SingleMethodExecute: the upstream pipeline
\* produces the piece and the threads are started
StreamPiece ==
  /\ stage = "stream"
  /\ upc = "loop"
  /\ frame.piece < frame.numDivisions /\ ~m_AbortGenerateData
  /\ m_CurrentSplit' = frame.piece
  /\ LET streamRegion == GetSplit(frame.piece, frame.numDivisions, outputRegion)
         validThreads == GetNumberOfSplits(streamRegion, m_NumberOfThreads)
     IN /\ frame' = [frame EXCEPT !.streamRegion = streamRegion,
                                  !.validThreads = validThreads]
        /\ threadInfo' = [t \in ThreadIds |->
                            IF t < validThreads
                              THEN [NoThread EXCEPT !.pc = "called"]
                              ELSE NoThread]
  /\ upc' = "threads"
  /\ UNCHANGED <<streamFixed, m_Updating, m_AbortGenerateData,
                 m_MaxFrobeniusNormArray, handed, scans, parameters,
                 estOutput>>

\* one turn of the loop in which inputPtr->UpdateOutputData() throws: the
\* exception leaves UpdateOutputData
UpstreamThrows ==
  /\ stage = "stream"
  /\ upc = "loop"
  /\ frame.piece < frame.numDivisions /\ ~m_AbortGenerateData
  /\ m_CurrentSplit' = frame.piece
  /\ upc' = "exception"
  /\ UNCHANGED <<streamFixed, m_Updating, m_AbortGenerateData,
                 m_MaxFrobeniusNormArray, frame, threadInfo, handed, scans,
                 parameters, estOutput>>

\* ThreaderCallback up to the call of ThreadedGenerateData
ThreaderCallback(threadId) ==
  /\ stage = "stream"
  /\ upc = "threads"
  /\ threadInfo[threadId].pc = "called"
  /\ LET threadCount == frame.validThreads
         total == GetNumberOfSplits(outputRegion, threadCount)
         splitRegion == SplitRequestedRegion(threadId, threadCount)
         streamNumber == m_CurrentSplit
     IN IF threadId < total
          THEN /\ threadInfo' =
                    [threadInfo EXCEPT ![threadId] =
                       [pc |-> "running", splitRegion |-> splitRegion,
                        callNumber |-> CallNumber(threadId, streamNumber)]]
               /\ handed' = handed \cup
                    {[piece |-> streamNumber, threadId |-> threadId,
                      region |-> splitRegion]}
          ELSE /\ threadInfo' = [threadInfo EXCEPT ![threadId].pc = "done"]
               /\ UNCHANGED handed
  /\ UNCHANGED <<streamFixed, m_Updating, m_AbortGenerateData, m_CurrentSplit,
                 m_MaxFrobeniusNormArray, upc, frame, scans, parameters,
                 estOutput>>

\* ThreadedGenerateData(region, streamNumber) of one thread
ThreadedGenerateData(threadId) ==
  /\ stage = "stream"
  /\ upc = "threads"
  /\ threadInfo[threadId].pc = "running"
  /\ m_MaxFrobeniusNormArray' =
       ScanRegion(m_MaxFrobeniusNormArray, threadInfo[threadId].splitRegion,
                  threadInfo[threadId].callNumber)
  /\ scans' = [v \in Voxels |->
                 IF v \in threadInfo[threadId].splitRegion /\ Inside(v)
                   THEN scans[v] + 1 ELSE scans[v]]
  /\ threadInfo' = [threadInfo EXCEPT ![threadId].pc = "done"]
  /\ UNCHANGED <<streamFixed, m_Updating, m_AbortGenerateData, m_CurrentSplit,
                 upc, frame, handed, parameters, estOutput>>

\* SingleMethodExecute returns when every thread has returned; the piece is
\* copied to the output and the loop goes on
EndPiece ==
  /\ stage = "stream"
  /\ upc = "threads"
  /\ \A t \in ThreadIds : threadInfo[t].pc \in {"idle", "done"}
  /\ estOutput' = [v \in (DOMAIN estOutput) \cup frame.streamRegion |->
                     IF v \in frame.streamRegion THEN eigen[v]
                                                 ELSE estOutput[v]]
  /\ frame' = [frame EXCEPT !.piece = frame.piece + 1]
  /\ upc' = "loop"
  /\ UNCHANGED <<streamFixed, m_Updating, m_AbortGenerateData, m_CurrentSplit,
                 m_MaxFrobeniusNormArray, threadInfo, handed, scans,
                 parameters>>

\* UpdateOutputData after the loop: the parameters are set, the outputs are
\* marked as generated
EndUpdateOutputData ==
  /\ stage = "stream"
  /\ upc = "loop"
  /\ ~(frame.piece < frame.numDivisions /\ ~m_AbortGenerateData)
  /\ parameters' = GetComputedParameters(m_MaxFrobeniusNormArray)
  /\ m_Updating' = FALSE
  /\ upc' = "returned"
  /\ UNCHANGED <<streamFixed, m_AbortGenerateData, m_CurrentSplit,
                 m_MaxFrobeniusNormArray, frame, threadInfo, handed, scans,
                 estOutput>>

StreamStep ==
  \/ UpdateOutputData
  \/ SetAbortGenerateData
  \/ StreamPiece
  \/ UpstreamThrows
  \/ \E threadId \in ThreadIds : ThreaderCallback(threadId)
  \/ \E threadId \in ThreadIds : ThreadedGenerateData(threadId)
  \/ EndPiece
  \/ EndUpdateOutputData

SpecStream == InitStream /\ [][StreamStep]_vars

\* C27: in the streamed estimator each included voxel of the requested
\* region is scanned exactly once per run: over all stream pieces and all
\* threads the regions handed to the workers are pairwise disjoint, and at
\* the end of a run that was not aborted they cover exactly the requested
\* region.
C27_ScannedExactlyOnce ==
  /\ \A a, b \in handed : a # b => a.region \cap b.region = {}
  /\ (upc = "returned" /\ ~m_AbortGenerateData) =>
       /\ UNION { a.region : a \in handed } = outputRegion
       /\ \A v \in outputRegion : scans[v] = IF Inside(v) THEN 1 ELSE 0

\* C28: when abort is requested while a streamed run is in progress, no
\* parameter vector of a partial scan is published: whenever UpdateOutputData
\* has returned, every included voxel of the requested region was scanned
\* and the published parameters are those of a complete pass.
C28_NoPartialPublication ==
  upc = "returned" =>
    /\ \A v \in outputRegion : Inside(v) => scans[v] >= 1
    /\ parameters =
         <<Half, Half,
           FixMul(m_FrobeniusNormWeight,
                  SetMax({0} \cup { CalculateFrobeniusNorm(eigen[v]) :
                                      v \in { u \in outputRegion : Inside(u) } }))>>

\* C29: m_Updating is false again after every UpdateOutputData call, whether
\* it returned or ended with an exception, so that no later call is skipped
\* because of an earlier failed run.
C29_UpdatingCleared ==
  /\ upc \in {"returned", "exception"} => ~m_Updating
  /\ upc # "skipped"

\* C30: every call number passed to the functor is smaller than the number
\* of slots given to Initialize, streamDivisions * numberOfThreads, and two
\* threads that run at the same time never use the same slot.
C30_SlotsInRangeAndDistinct ==
  /\ upc \in {"loop", "threads"} =>
       DOMAIN m_MaxFrobeniusNormArray =
         0..(m_NumberOfStreamDivisions * m_NumberOfThreads - 1)
  /\ \A t \in ThreadIds :
       threadInfo[t].pc = "running" =>
         /\ threadInfo[t].callNumber >= 0
         /\ threadInfo[t].callNumber <
              m_NumberOfStreamDivisions * m_NumberOfThreads
         /\ threadInfo[t].callNumber \in DOMAIN m_MaxFrobeniusNormArray
  /\ \A s, t \in ThreadIds :
       (s # t /\ threadInfo[s].pc = "running" /\ threadInfo[t].pc = "running")
         => threadInfo[s].callNumber # threadInfo[t].callNumber

C30_Witness ==
  /\ m_CurrentSplit > 0
  /\ \E t \in ThreadIds :
       /\ threadInfo[t].pc = "running"
       /\ threadInfo[t].callNumber =
            m_NumberOfStreamDivisions * m_NumberOfThreads - 1

\* ------------------------------------------------------ sigma generators
EquispacedSigmaSteps == 0
LogarithmicSigmaSteps == 1

\* mutant: zero steps are rejected only on a range with unequal ends
StepsRejectedOnRange(lo, hi, n) == n = 0 /\ lo # hi

\* a request for no steps at all is an error, whatever the range
StepsRejected(lo, hi, n) == n < 1

\* mutant: a range with equal ends is sampled like any other
SamplesAsRequested(lo, hi, n) == n

\* a range with equal ends, or a single step, yields one value
NumberOfSamples(lo, hi, n) == IF lo = hi \/ n < 2 THEN 1 ELSE n

\* the ratio of consecutive values is held with one more decimal digit than
\* the values; r^k rounded to nearest, and the largest r with r^k <= ratio
Fine == 10 * Unit

RECURSIVE PowFine(_, _)
PowFine(r, k) ==
  IF k = 0 THEN Fine ELSE (PowFine(r, k - 1) * r + Fine \div 2) \div Fine

RootFine(ratio, k) ==
  CHOOSE r \in Fine..ratio :
    /\ PowFine(r, k) <= ratio
    /\ r = ratio \/ PowFine(r + 1, k) > ratio

\* mutant: the range is cut into as many steps as values, the upper end is
\* never reached
SigmaValueShortOfEnd(lo, hi, count, method, level) ==
  IF count < 2 THEN lo
  ELSE IF method = EquispacedSigmaSteps
    THEN lo + ((hi - lo) \div count) * level
    ELSE (lo * PowFine(RootFine((hi * Fine) \div lo, count), level)
            + Fine \div 2) \div Fine

\* the value at one level: linear steps, or steps of equal ratio
SigmaValue(lo, hi, count, method, level) ==
  IF count < 2 THEN lo
  ELSE IF method = EquispacedSigmaSteps
    THEN lo + ((hi - lo) \div (count - 1)) * level
    ELSE (lo * PowFine(RootFine((hi * Fine) \div lo, count - 1), level)
            + Fine \div 2) \div Fine

\* mutant: an error is reported by returning an empty array
ErrorOutcomeEmptyArray == "returned"

\* an error is reported by throwing
ErrorOutcome == "exception"

\* mutant: the first argument is taken as the lower end
LowerEndAsGiven(a, b) == a

\* the ends are put in order
LowerEnd(a, b) == IF a <= b THEN a ELSE b

UpperEnd(a, b) == IF a <= b THEN b ELSE a

\* the values of an accepted request
SigmaSamples(SigmaMinimum, SigmaMaximum, NumberOfSigmaSteps, SigmaStepMethod) ==
  LET lo == LowerEnd(SigmaMinimum, SigmaMaximum)
      hi == UpperEnd(SigmaMinimum, SigmaMaximum)
      count == NumberOfSamples(lo, hi, NumberOfSigmaSteps)
  IN [outcome |-> "returned",
      sigmaArray |-> [i \in 1..count |->
                        SigmaValue(lo, hi, count, SigmaStepMethod, i - 1)]]

\* mutant: the number of steps is not checked
GenerateSigmaArrayUnchecked(SigmaMinimum, SigmaMaximum, NumberOfSigmaSteps, SigmaStepMethod) ==
  SigmaSamples(SigmaMinimum, SigmaMaximum, NumberOfSigmaSteps, SigmaStepMethod)

\* the generator: reject, order the ends, sample
GenerateSigmaArray(SigmaMinimum, SigmaMaximum, NumberOfSigmaSteps, SigmaStepMethod) ==
  IF StepsRejected(SigmaMinimum, SigmaMaximum, NumberOfSigmaSteps)
    THEN [outcome |-> ErrorOutcome, sigmaArray |-> << >>]
    ELSE SigmaSamples(SigmaMinimum, SigmaMaximum, NumberOfSigmaSteps, SigmaStepMethod)

\* a caller about to generate a schedule from two ends and a step count
InitSigma ==
  /\ reported = NotReported
  /\ IdleStream
  /\ stage = "generate"
  /\ \E lo, hi \in ({Unit, 2 * Unit, 5 * Unit}) : \E n \in 0..MaxSigmaSteps :
       sigmaCall = [outcome |-> "pending", SigmaMinimum |-> lo,
                    SigmaMaximum |-> hi, NumberOfSigmaSteps |-> n]
  /\ filterKind = "Descoteaux"
  /\ m_ParameterSet = UseImplementationParameters
  /\ m_FrobeniusNormWeight = Half
  /\ m_Direction = -1
  /\ m_SigmaArray = << >>
  /\ eigen = [v \in Voxels |-> <<0, 0, 0>>]
  /\ mask = NoMask
  /\ maskingSpatialObject = NoMask
  /\ parameters = InitialParameters
  /\ IdleWorkUnits
  /\ IdleOrchestrator

Generated(method) ==
  /\ stage = "generate" /\ sigmaCall.outcome = "pending"
  /\ LET result == GenerateSigmaArray(sigmaCall.SigmaMinimum,
                                      sigmaCall.SigmaMaximum,
                                      sigmaCall.NumberOfSigmaSteps, method)
     IN sigmaCall' = [sigmaCall EXCEPT !.outcome = result.outcome]
                       @@ [SigmaStepMethod |-> method,
                           sigmaArray |-> result.sigmaArray]
  /\ UNCHANGED <<stage, filterKind, m_ParameterSet, m_FrobeniusNormWeight,
                 m_Direction, m_SigmaArray, mask, maskingSpatialObject,
                 orchVars, measureVars, sharedVars, eigen, split, pc, pos,
                 local, tmp, m_Mutex, parameters, estOutput, rounded, cmb,
                 reported, streamVars>>

GenerateEquispacedSigmaArray == Generated(EquispacedSigmaSteps)

GenerateLogarithmicSigmaArray == Generated(LogarithmicSigmaSteps)

SigmaStep == GenerateEquispacedSigmaArray \/ GenerateLogarithmicSigmaArray

SpecSigma == InitSigma /\ [][SigmaStep]_vars

\* a generator has answered the call
Answered == sigmaCall.outcome \in {"returned", "exception"}

\* C19 (as stated): with equal ends both generators return the
\* single-element schedule holding that value, whatever the number of steps
\* requested.
C19_EqualEndsGiveOneValue ==
  (Answered /\ sigmaCall.SigmaMinimum = sigmaCall.SigmaMaximum) =>
    /\ sigmaCall.outcome = "returned"
    /\ sigmaCall.sigmaArray = <<sigmaCall.SigmaMinimum>>

\* C19 (amended): with equal ends both generators return the single-element
\* schedule holding that value, whatever the number of steps requested, as
\* long as at least one step is requested.
C19_EqualEndsGiveOneValueFromOneStep ==
  (/\ Answered
   /\ sigmaCall.SigmaMinimum = sigmaCall.SigmaMaximum
   /\ sigmaCall.NumberOfSigmaSteps >= 1) =>
    /\ sigmaCall.outcome = "returned"
    /\ sigmaCall.sigmaArray = <<sigmaCall.SigmaMinimum>>

C19_Witness ==
  /\ sigmaCall.outcome = "returned"
  /\ sigmaCall.SigmaMinimum = sigmaCall.SigmaMaximum
  /\ sigmaCall.NumberOfSigmaSteps = MaxSigmaSteps
  /\ sigmaCall.SigmaStepMethod = LogarithmicSigmaSteps
  /\ Len(sigmaCall.sigmaArray) = 1

Ascending(a) == \A i \in 1..(Len(a) - 1) : a[i] < a[i + 1]

C22_SwapInvariant ==
  Answered =>
    LET inOrder == sigmaCall.SigmaMinimum <= sigmaCall.SigmaMaximum
        forward ==
          GenerateSigmaArray(
            IF inOrder THEN sigmaCall.SigmaMinimum ELSE sigmaCall.SigmaMaximum,
            IF inOrder THEN sigmaCall.SigmaMaximum ELSE sigmaCall.SigmaMinimum,
            sigmaCall.NumberOfSigmaSteps, sigmaCall.SigmaStepMethod)
    IN /\ sigmaCall.outcome = forward.outcome
       /\ sigmaCall.sigmaArray = forward.sigmaArray
       /\ Ascending(sigmaCall.sigmaArray)
       /\ sigmaCall.outcome = "returned" =>
            sigmaCall.sigmaArray[1] =
              IF sigmaCall.SigmaMinimum <= sigmaCall.SigmaMaximum
                THEN sigmaCall.SigmaMinimum ELSE sigmaCall.SigmaMaximum

C22_Witness ==
  /\ sigmaCall.outcome = "returned"
  /\ sigmaCall.SigmaMinimum = 5 * Unit /\ sigmaCall.SigmaMaximum = Unit
  /\ sigmaCall.NumberOfSigmaSteps = 5
  /\ sigmaCall.SigmaStepMethod = EquispacedSigmaSteps
  /\ sigmaCall.sigmaArray = <<Unit, 2 * Unit, 3 * Unit, 4 * Unit, 5 * Unit>>

\* a returned equispaced schedule: the requested number of values, the first
\* the lower end, equal differences, the last the upper end up to the
\* rounding of the step
LinearlyInterpolated(a, lo, hi, n) ==
  /\ Len(a) = n
  /\ a[1] = lo
  /\ \A i, j \in 1..(n - 1) : a[i + 1] - a[i] = a[j + 1] - a[j]
  /\ a[n] <= hi /\ hi - a[n] < StdMax(n - 1, 1)

EquispacedReturned ==
  /\ sigmaCall.outcome = "returned"
  /\ sigmaCall.SigmaStepMethod = EquispacedSigmaSteps
  /\ sigmaCall.SigmaMinimum < sigmaCall.SigmaMaximum

NotApplied == "none"

\* three response values of one voxel, the functor not yet applied
InitCombine ==
  /\ reported = NotReported
  /\ IdleStream
  /\ sigmaCall = NoCall
  /\ stage = "combine"
  /\ filterKind = "Descoteaux"
  /\ m_ParameterSet = UseImplementationParameters
  /\ m_FrobeniusNormWeight = Half
  /\ m_Direction = -1
  /\ m_SigmaArray = <<>>
  /\ eigen = [v \in Voxels |-> <<0, 0, 0>>]
  /\ mask = NoMask
  /\ maskingSpatialObject = NoMask
  /\ parameters = InitialParameters
  /\ IdleWorkUnits
  /\ scaleLevel = 0
  /\ outputImage = EmptyImage
  /\ history = <<>>
  /\ functorParameters = <<0, 0, 0>>
  /\ response = EmptyImage
  /\ \E a, b, c \in ((-MaxAbsPixel)..MaxAbsPixel) :
       cmb = [A |-> a, B |-> b, C |-> c, functor |-> NotApplied,
              AB |-> 0, BA |-> 0, AB_C |-> 0, A_BC |-> 0]

\* the functor of itkMaximumAbsoluteValueImageFilter.h applied in both
\* orders and both groupings
ApplyMaximumAbsoluteValue ==
  /\ stage = "combine" /\ cmb.functor = NotApplied
  /\ cmb' = [cmb EXCEPT
       !.functor = "MaximumAbsoluteValue",
       !.AB = MaximumAbsoluteValue(cmb.A, cmb.B),
       !.BA = MaximumAbsoluteValue(cmb.B, cmb.A),
       !.AB_C = MaximumAbsoluteValue(MaximumAbsoluteValue(cmb.A, cmb.B), cmb.C),
       !.A_BC = MaximumAbsoluteValue(cmb.A, MaximumAbsoluteValue(cmb.B, cmb.C))]
  /\ UNCHANGED <<stage, configVars, orchVars, measureVars, sharedVars, eigen,
                 split, pc, pos, local, tmp, m_Mutex, parameters, estOutput,
                 rounded>>

\* the functor of the earlier revision applied likewise
ApplyMaximumAbsoluteValueGE ==
  /\ stage = "combine" /\ cmb.functor = NotApplied
  /\ cmb' = [cmb EXCEPT
       !.functor = "MaximumAbsoluteValueGE",
       !.AB = MaximumAbsoluteValueGE(cmb.A, cmb.B),
       !.BA = MaximumAbsoluteValueGE(cmb.B, cmb.A),
       !.AB_C = MaximumAbsoluteValueGE(MaximumAbsoluteValueGE(cmb.A, cmb.B), cmb.C),
       !.A_BC = MaximumAbsoluteValueGE(cmb.A, MaximumAbsoluteValueGE(cmb.B, cmb.C))]
  /\ UNCHANGED <<stage, configVars, orchVars, measureVars, sharedVars, eigen,
                 split, pc, pos, local, tmp, m_Mutex, parameters, estOutput,
                 rounded>>

CombineStep == ApplyMaximumAbsoluteValue \/ ApplyMaximumAbsoluteValueGE

SpecCombine == InitCombine /\ [][CombineStep]_vars

Applied == stage = "combine" /\ cmb.functor # NotApplied

\* C7 (as stated): the reduction is commutative and associative:
\* combine(A,B) = combine(B,A) and combine(combine(A,B),C) =
\* combine(A,combine(B,C)) for all response values A, B, C.
C7_CommutativeAssociative ==
  Applied => (cmb.AB = cmb.BA /\ cmb.AB_C = cmb.A_BC)

\* C7 (amended): the reduction is associative; it is commutative for
\* operands of different magnitude and for equal operands, and in every case
\* the two orders give results of the same magnitude.
C7_AssociativeCommutativeOffTies ==
  Applied =>
    /\ cmb.AB_C = cmb.A_BC
    /\ (Abs(cmb.A) # Abs(cmb.B) \/ cmb.A = cmb.B) => cmb.AB = cmb.BA
    /\ Abs(cmb.AB) = Abs(cmb.BA)

C7_Witness ==
  /\ Applied
  /\ Abs(cmb.A) > Abs(cmb.B) /\ cmb.B = -cmb.C /\ cmb.B # 0
  /\ cmb.AB = cmb.A /\ cmb.AB_C = cmb.A

\* ------------------------------------------------ multi-scale orchestrator
\* eigenvalue triples the eigen-analysis of a scale can deliver
SceneSeq == << <<0, 1, -1>>, <<1, -2, -5>>, <<0, 0, 0>>, <<0, 1, 1>> >>

Scene(k) == [v \in Voxels |-> SceneSeq[((v + k) % Len(SceneSeq)) + 1]]

\* a response buffer as the combiner reads it; a pixel not yet written
\* holds whatever the allocation held
Uninitialised == {0, Unit}

Completions(img) ==
  { [v \in Voxels |-> IF v \in DOMAIN img THEN img[v] ELSE g[v]] :
      g \in [Voxels \ DOMAIN img -> Uninitialised] }

\* mutant: the combiner does not wait for the measure filter's work units
WorkersRunning == stage \in {"measuring", "measured"}

\* the per-scale pipeline has been updated, its work units joined
WorkersJoined == stage = "measured"

\* mutant: the first response is compared against a buffer of ones
CombinedWithBuffer(level, out, resp) ==
  [v \in Voxels |-> MaximumAbsoluteValue(IF level = 0 THEN Unit ELSE out[v], resp[v])]

\* the first response seeds the running output, later ones are combined
CombinedOutput(level, out, resp) ==
  IF level = 0 THEN resp
  ELSE [v \in Voxels |-> MaximumAbsoluteValue(out[v], resp[v])]

\* mutant: the schedule is not looked at before the scales are processed
SigmaArrayUnchecked == TRUE

\* the orchestrator needs at least one scale
SigmaArrayAccepted == Len(m_SigmaArray) >= 1

InitOrchestrator ==
  /\ reported = NotReported
  /\ IdleStream
  /\ sigmaCall = NoCall
  /\ stage = "configured"
  /\ filterKind \in {"Descoteaux", "Krcah"}
  /\ m_ParameterSet = UseImplementationParameters
  /\ m_FrobeniusNormWeight = Half
  /\ m_Direction \in Directions
  \* SetSigmaArray accepts any array, the empty one included
  /\ m_SigmaArray \in { [i \in 1..n |-> i] : n \in 0..MaxScales }
  /\ eigen = [v \in Voxels |-> <<0, 0, 0>>]
  /\ mask \in ({ NoMask, [present |-> TRUE, region |-> Voxels, inside |-> 1..(NumVoxels - 1)] })
  /\ maskingSpatialObject = mask
  /\ parameters = InitialParameters
  /\ IdleWorkUnits
  /\ IdleOrchestrator

\* the run begins: the schedule is checked before any scale is processed
GenerateData ==
  /\ stage = "configured"
  /\ stage' = IF SigmaArrayAccepted THEN "idle" ELSE "exception"
  /\ UNCHANGED <<configVars, orchVars, measureVars, sharedVars, eigen, split,
                 pc, pos, local, tmp, m_Mutex, parameters, estOutput, rounded,
                 cmb>>

\* the Hessian and eigen-analysis collaborators deliver the eigenvalue field
\* of the next scale and the per-scale pipeline is started on it
generateResponseAtScale ==
  /\ stage = "idle"
  /\ scaleLevel < Len(m_SigmaArray)
  /\ eigen' \in ({ Scene(k) : k \in 1..Len(SceneSeq) })
  /\ stage' = "estimate"
  /\ UNCHANGED <<configVars, orchVars, measureVars, sharedVars, split, pc, pos,
                 local, tmp, m_Mutex, parameters, estOutput, rounded, cmb>>

\* the response of the scale is folded into the running output
ScaleCombiner ==
  /\ WorkersJoined
  /\ \E r \in Completions(response) :
       /\ outputImage' = CombinedOutput(scaleLevel, outputImage, r)
       /\ history' = Append(history, r)
  /\ scaleLevel' = scaleLevel + 1
  /\ stage' = IF scaleLevel + 1 >= Len(m_SigmaArray) THEN "finished" ELSE "idle"
  /\ split' = [i \in 0..MaxWorkUnits |-> 0]
  /\ pc' = [w \in WorkUnits |-> "done"]
  /\ pos' = [w \in WorkUnits |-> 1]
  /\ local' = [w \in WorkUnits |-> NewLocal]
  /\ tmp' = [w \in WorkUnits |-> 0]
  /\ UNCHANGED <<configVars, measureVars, sharedVars, eigen, m_Mutex,
                 parameters, estOutput, rounded, cmb>>

Init == InitOrchestrator

Next ==
  \/ GenerateData
  \/ generateResponseAtScale
  \/ EstimatorStep
  \/ MeasureStep
  \/ ScaleCombiner

Spec == Init /\ [][Next]_vars

\* --------------------------------------------------- orchestrator claims
Processed == 1..scaleLevel

\* C1: after the first k scales of the schedule, for every k from 1 to the
\* schedule length, every voxel of the output holds the response of largest
\* absolute magnitude among that voxel's responses at those k scales.
C1_RunningMaximumAbsolute ==
  (scaleLevel >= 1) =>
    /\ scaleLevel = Len(history) /\ scaleLevel <= Len(m_SigmaArray)
    /\ \A v \in Voxels :
         /\ \E i \in Processed : outputImage[v] = history[i][v]
         /\ \A j \in Processed : Abs(outputImage[v]) >= Abs(history[j][v])

C1_Witness ==
  /\ scaleLevel = 2
  /\ \E v, u \in Voxels :
       /\ Abs(history[1][v]) > Abs(history[2][v]) /\ history[2][v] # 0
       /\ Abs(history[2][u]) > Abs(history[1][u])
       /\ outputImage[v] = history[1][v] /\ outputImage[u] = history[2][u]
       /\ outputImage[u] < 0

\* C6: the running output is mutated only by the combiner, once per scale,
\* after all work units of that scale have joined; no work unit is writing
\* while the combiner writes.
C6_OnlyCombinerWrites ==
  /\ [](scaleLevel = Len(history) /\ scaleLevel <= Len(m_SigmaArray))
  /\ [][ (outputImage' # outputImage \/ history' # history) =>
           /\ stage = "measured"
           /\ AllDone
           /\ DOMAIN response = Voxels
           /\ scaleLevel' = scaleLevel + 1
           /\ history' = Append(history, response) ]_vars

C6_Witness ==
  /\ stage = "finished"
  /\ scaleLevel >= 2
  /\ outputImage # history[1]
  /\ outputImage # history[scaleLevel]

\* the response the per-scale pipeline computes for the current scale
PipelineResponse ==
  [v \in Voxels |-> IF Inside(v)
                      THEN Functor(eigen[v], parameters, m_Direction)
                      ELSE 0]

\* C8: with a single-scale schedule the output equals, voxel for voxel, that
\* scale's response from the per-scale pipeline; the first response seeds the
\* running output directly.
C8_SingleScaleIsPipeline ==
  /\ (stage = "finished" /\ Len(m_SigmaArray) = 1) =>
       (outputImage = response /\ outputImage = PipelineResponse)
  /\ scaleLevel = 1 => outputImage = history[1]

C8_Witness ==
  /\ stage = "finished" /\ Len(m_SigmaArray) = 1
  /\ \E v, u \in Voxels :
       /\ outputImage[v] # 0 /\ Abs(outputImage[v]) < Unit
       /\ outputImage[u] = 0

\* C17: a run on an empty sigma schedule ends in an exception raised to the
\* caller before any scale is processed; no output is produced.
C17_EmptyScheduleRejected ==
  (Len(m_SigmaArray) = 0) =>
    /\ stage \in {"configured", "exception"}
    /\ stage = "configured" => ENABLED GenerateData
    /\ scaleLevel = 0 /\ history = << >>
    /\ outputImage = EmptyImage /\ response = EmptyImage
    /\ AllDone

C17_Witness ==
  /\ stage = "exception"
  /\ Len(m_SigmaArray) = 0
  /\ outputImage = EmptyImage

====
